---- MODULE Spec2Model ----
(***************************************************************************)
(* Model of app.py: the Event and Timeghost values, the validity check,   *)
(* the selector Timeghost.make with its helpers _event_before and _make,  *)
(* the wrapper load_events_and_make_timeghost, and the precision search   *)
(* of Timeghost.verbose_factoid.                                          *)
(*                                                                         *)
(* An Event is a record [id, date].  Event defines no __eq__, so          *)
(* "middle in events" and events.remove(middle) compare object identity:  *)
(* the id field.  Dates are integers (an instant on the time line).       *)
(***************************************************************************)
EXTENDS Integers, Sequences, FiniteSets, TLC

\* ------------------------------------------------------------- bounds
MaxPool == 3        \* longest input pool
MaxDate == 4        \* event dates are 1..MaxDate
MinNow == 5         \* the clock when the process starts
MaxNow == 6         \* the clock never reads later than this
MantissaBits == 24  \* significant bits of a float (CPython's float has 53)
MaxPrecision == 30  \* the precision search is followed up to this precision

\* ---------------------------------------------------------- constants
NUM_TRIES == 100
SECONDS_PER_YEAR == 31536000

\* ------------------------------------------------------------- events
NoneId == 0 - 2
NowId == 0 - 1
CopyId == 0

\* Python's None, for an Event-typed variable.
None == [id |-> NoneId, date |-> 0]

\* Event(description, date); id stands for the object's identity.
Event(id, date) == [id |-> id, date |-> date]

\* Event.now() when the clock reads t.
EventNow(t) == Event(NowId, t)

\* Event.__lt__
Lt(self, other) == self.date < other.date

\* Event.__sub__
Sub(self, other) == self.date - other.date

Range(s) == {s[k] : k \in 1..Len(s)}

\* ---------------------------------------------------------- Timeghost
\* The name timeghost before any assignment (unbound).
NoTimeghost == [first |-> None, middle |-> None, last |-> None, tries |-> 0]

\* Timeghost.first_gap
first_gap(self) == Sub(self.middle, self.first)

\* Timeghost.last_gap
last_gap(self) == Sub(self.last, self.middle)

\* A mutant of is_valid: the closeness test accepts equal gaps.
is_valid_le(self) ==
    LET is_right_order == Lt(self.first, self.middle) /\ Lt(self.middle, self.last)
        is_right_closeness == first_gap(self) <= last_gap(self)
    IN  is_right_order /\ is_right_closeness

\* Timeghost.is_valid
is_valid(self) ==
    LET is_right_order == Lt(self.first, self.middle) /\ Lt(self.middle, self.last)
        is_right_closeness == first_gap(self) < last_gap(self)
    IN  is_right_order /\ is_right_closeness

\* A mutant of Timeghost: the check flag is ignored and nothing is validated.
Timeghost_unchecked(first, middle, last, check) ==
    [raised |-> FALSE,
     obj |-> [first |-> first, middle |-> middle, last |-> last, tries |-> 1]]

\* Timeghost.__init__: raised is TRUE when TimeghostValidationError is
\* raised, otherwise obj is the constructed object.
Timeghost(first, middle, last, check) ==
    LET self == [first |-> first, middle |-> middle, last |-> last, tries |-> 1]
    IN  IF check /\ ~is_valid(self)
        THEN [raised |-> TRUE, obj |-> NoTimeghost]
        ELSE [raised |-> FALSE, obj |-> self]

\* ------------------------------------------------------------- floats
\* A float is [m, e], the number m * 2^e, with m = 0 or
\* 2^(MantissaBits - 1) <= m < 2^MantissaBits.  Every operation rounds its
\* exact result to the nearest float, ties to the even mantissa, as IEEE 754
\* arithmetic does.

\* The number of bits of n > 0.
BitLength(n) == CHOOSE b \in 1..30 : 2^(b - 1) <= n /\ n < 2^b

\* q plus one when the remainder r of a division by d rounds up.
RoundHalfEven(q, r, d) ==
    IF 2 * r > d \/ (2 * r = d /\ q % 2 = 1) THEN q + 1 ELSE q

\* [m, e] with a mantissa that rounding carried up to 2^MantissaBits put
\* back in range.
Normal(m, e) ==
    IF m = 2^MantissaBits THEN [m |-> 2^(MantissaBits - 1), e |-> e + 1]
    ELSE [m |-> m, e |-> e]

\* float(n) for an integer n >= 0: timedelta.total_seconds() of a gap of n
\* time units.
total_seconds(n) ==
    IF n = 0 THEN [m |-> 0, e |-> 0]
    ELSE LET b == BitLength(n)
         IN  IF b <= MantissaBits
             THEN [m |-> n * 2^(MantissaBits - b), e |-> b - MantissaBits]
             ELSE LET d == 2^(b - MantissaBits)
                  IN  Normal(RoundHalfEven(n \div d, n % d, d), b - MantissaBits)

\* Long division: quotient bits are taken until the quotient has
\* MantissaBits bits; s counts the bits taken.
RECURSIVE DivBits(_, _, _, _)
DivBits(q, r, s, d) ==
    IF q >= 2^(MantissaBits - 1) THEN [q |-> q, r |-> r, s |-> s]
    ELSE IF 2 * r >= d THEN DivBits(2 * q + 1, 2 * r - d, s + 1, d)
    ELSE DivBits(2 * q, 2 * r, s + 1, d)

\* x / d for a float x >= 0 and an integer d > 0.
FloatDiv(x, d) ==
    IF x.m = 0 THEN x
    ELSE LET b == DivBits(x.m \div d, x.m % d, 0, d)
         IN  Normal(RoundHalfEven(b.q, b.r, d), x.e - b.s)

\* The first p decimals of r / d, and the remainder left after them.
RECURSIVE Decimals(_, _, _, _)
Decimals(r, d, p, digits) ==
    IF p = 0 THEN [digits |-> digits, r |-> r]
    ELSE Decimals((10 * r) % d, d, p - 1, Append(digits, (10 * r) \div d))

\* One unit added to the last decimal of a text, with its carries.
RECURSIVE AddUnit(_, _)
AddUnit(text, k) ==
    IF k = 0 THEN [text EXCEPT !.int = @ + 1]
    ELSE IF text.frac[k] = 9
         THEN AddUnit([text EXCEPT !.frac[k] = 0], k - 1)
         ELSE [text EXCEPT !.frac[k] = @ + 1]

\* f"{x:.{p}f}" for a float x >= 0: the decimal text with p decimals nearest
\* to the float's exact value, ties to the even last digit.  A text is its
\* integer part and the sequence of its decimals.
Format(x, p) ==
    IF x.e >= 0
    THEN [int |-> x.m * 2^x.e, frac |-> [k \in 1..p |-> 0]]
    ELSE LET d == 2^(0 - x.e)
             dec == Decimals(x.m % d, d, p, <<>>)
             text == [int |-> x.m \div d, frac |-> dec.digits]
             last == IF p = 0 THEN text.int ELSE dec.digits[p]
         IN  IF RoundHalfEven(last, dec.r, d) # last THEN AddUnit(text, p)
             ELSE text

\* Timeghost.first_gap_years
first_gap_years(self) ==
    FloatDiv(total_seconds(first_gap(self)), SECONDS_PER_YEAR)

\* Timeghost.last_gap_years
last_gap_years(self) ==
    FloatDiv(total_seconds(last_gap(self)), SECONDS_PER_YEAR)

\* ------------------------------------------------------- list helpers
\* middle in events
In(e, events) == \E k \in 1..Len(events) : events[k].id = e.id

\* events.remove(middle): drops the first occurrence.
Remove(events, e) ==
    LET k == CHOOSE j \in 1..Len(events) :
                 /\ events[j].id = e.id
                 /\ \A h \in 1..(j - 1) : events[h].id # e.id
    IN  SubSeq(events, 1, k - 1) \o SubSeq(events, k + 1, Len(events))

\* The place of e in an ascending list: after every element that is not
\* later than it (list.sort is stable and compares with __lt__ only).
InsertSorted(sorted, e) ==
    LET later == {k \in 1..Len(sorted) : Lt(e, sorted[k])}
        at == IF later = {} THEN Len(sorted) + 1
              ELSE CHOOSE k \in later : \A h \in later : k <= h
    IN  SubSeq(sorted, 1, at - 1) \o <<e>> \o SubSeq(sorted, at, Len(sorted))

RECURSIVE SortFrom(_, _, _)
SortFrom(events, k, sorted) ==
    IF k > Len(events) THEN sorted
    ELSE SortFrom(events, k + 1, InsertSorted(sorted, events[k]))

\* events.sort()
Sorted(events) == SortFrom(events, 1, <<>>)

\* The orders random.shuffle(events) can leave.
Shuffles(events) ==
    LET orders == {s \in [1..Len(events) -> Range(events)] :
                      \A j, k \in 1..Len(events) : j # k => s[j].id # s[k].id}
    IN  {SubSeq(s, 1, Len(events)) : s \in orders}

\* A mutant of sort_orders: the list is shuffled whatever is_random says.
sort_orders_shuffled(events) == Shuffles(events)

\* The orders "events.sort()" can leave: the one stable ascending order.
sort_orders(events) == {Sorted(events)}

\* ------------------------------------------------------------- _make
\* The loop of _make from position k on: the first event in list order that
\* passes invalid_event_check and validates; raised is TRUE when the loop
\* ends and TimeghostCreationError is raised.
RECURSIVE make_scan(_, _, _, _, _)
make_scan(events, k, first, middle, last) ==
    IF k > Len(events) THEN [raised |-> TRUE, obj |-> NoTimeghost]
    ELSE LET event == events[k]
             find_first_mode == first = None
             invalid == IF find_first_mode THEN Lt(middle, event)
                        ELSE Lt(event, middle)
             made == IF find_first_mode
                     THEN Timeghost(event, middle, last, TRUE)
                     ELSE Timeghost(first, middle, event, TRUE)
         IN  IF invalid \/ made.raised
             THEN make_scan(events, k + 1, first, middle, last)
             ELSE made

\* A mutant of make_find: the scan runs over the list from its end.
make_find_reversed(events, first, middle, last) ==
    LET backwards == [k \in 1..Len(events) |-> events[Len(events) + 1 - k]]
    IN  make_scan(SubSeq(backwards, 1, Len(events)), 1, first, middle, last)

\* Timeghost._make: TimeghostCreationError (raised is TRUE) when neither
\* mode applies, otherwise the scan.
make_find(events, first, middle, last) ==
    LET find_first_mode == first = None /\ middle # None /\ last # None
        find_last_mode == first # None /\ middle # None /\ last = None
    IN  IF find_first_mode \/ find_last_mode
        THEN make_scan(events, 1, first, middle, last)
        ELSE [raised |-> TRUE, obj |-> NoTimeghost]

\* The candidates of Timeghost._event_before, in list order.
befores(middle, events) == SelectSeq(events, LAMBDA e : Lt(e, middle))

\* -------------------------------------------------------------- state
VARIABLES
    pc,         \* "call", "loop", "returned", "raised", "done": where make is
    events,     \* the working pool, mutated in place
    middle,     \* make's local middle (None until drawn when not pinned)
    is_now,     \* make's argument
    is_random,  \* make's argument
    i,          \* attempts of the loop that have failed so far
    timeghost,  \* make's local timeghost, and its return value
    error,      \* the exception that left make: "none" while there is none
    now,        \* the latest reading of the clock
    instants,   \* the instants at which the clock can be read
    response,   \* what load_events_and_make_timeghost gave its route
    events0,    \* the pool as it was passed in
    middle0,    \* the middle as it was passed in
    firstNow,   \* the first reading Event.now() took (0: none yet)
    prev,       \* the outcome of the previous run on the same input
    built,      \* the latest direct call of the Timeghost constructor
    factoid     \* the precision search of verbose_factoid

makeVars == <<pc, events, middle, is_now, is_random, i, timeghost, error,
              now, instants, response, events0, middle0, firstNow>>
vars == <<pc, events, middle, is_now, is_random, i, timeghost, error,
          now, instants, response, events0, middle0, firstNow, prev, built,
          factoid>>

NoOutcome == [pc |-> "none", timeghost |-> NoTimeghost, error |-> "none"]
NotBuilt == [called |-> FALSE, first |-> None, middle |-> None, last |-> None,
             check |-> FALSE, raised |-> FALSE, obj |-> NoTimeghost,
             valid |-> FALSE]
NoText == [int |-> 0, frac |-> <<>>]
NoFactoid == [pc |-> "idle", tg |-> NoTimeghost, precision |-> 0,
              first_text |-> NoText, last_text |-> NoText]

\* The date lists of n events, newest first.
NewestFirst(n) ==
    {dates \in [1..n -> 1..MaxDate] : \A k \in 1..(n - 1) : dates[k] >= dates[k + 1]}

\* The pools a caller can pass: up to MaxPool distinct Event objects, which
\* may share dates.  make reorders the list before it reads it (shuffle or
\* sort) and tells events apart by identity only, so every input order
\* behaves as the newest-first order does under a renaming of the objects.
Pools ==
    UNION {{[k \in 1..n |-> Event(k, dates[k])] : dates \in NewestFirst(n)}
           : n \in 1..MaxPool}

\* The middle a caller can pass: none, one of the pool's own objects, or
\* another object (load_specific_events builds its own Event objects).
Middles(pool) == {None} \cup Range(pool) \cup {Event(CopyId, d) : d \in 1..MaxDate}

\* make(events, middle, is_now, is_random) has just been called.
Init ==
    /\ pc = "call"
    /\ events0 \in Pools
    /\ events = events0
    /\ middle0 \in Middles(events0)
    /\ middle = middle0
    /\ is_now \in BOOLEAN
    /\ is_random \in BOOLEAN
    /\ i = 0
    /\ timeghost = NoTimeghost
    /\ error = "none"
    /\ now = MinNow
    /\ instants = MinNow..MaxNow
    /\ response = "pending"
    /\ firstNow = 0
    /\ prev = NoOutcome
    /\ built = NotBuilt
    /\ factoid = NoFactoid

\* make, is_random: random.shuffle(events)
make_shuffle ==
    /\ pc = "call"
    /\ is_random
    /\ events' \in Shuffles(events)
    /\ pc' = "loop"
    /\ UNCHANGED <<middle, is_now, is_random, i, timeghost, error, now,
                   instants, response, events0, middle0, firstNow, prev, built, factoid>>

\* make, not is_random: events.sort()
make_sort ==
    /\ pc = "call"
    /\ ~is_random
    /\ events' \in sort_orders(events)
    /\ pc' = "loop"
    /\ UNCHANGED <<middle, is_now, is_random, i, timeghost, error, now,
                   instants, response, events0, middle0, firstNow, prev, built, factoid>>

\* A mutant of choose_middle: an unpinned middle is drawn again on every
\* attempt while the pool has events.
choose_middle_redraw(m, pool) ==
    IF m = None \/ (middle0 = None /\ pool # <<>>) THEN Range(pool) ELSE {m}

\* "if middle is None: middle = random.choice(events)": the values middle can
\* have after it.  The pool is not empty when middle is None: a pool is
\* passed with at least one event, and loses one only to a middle.
choose_middle(m, pool) == IF m = None THEN Range(pool) ELSE {m}

\* "if middle in events: events.remove(middle)"
remove_middle(m, pool) == IF In(m, pool) THEN Remove(pool, m) ELSE pool

\* A mutant of tries_of: the zero-based loop index is recorded.
tries_of_index(k) == k

\* "timeghost.tries = i + 1"
tries_of(k) == k + 1

\* One pass of make's loop with is_now: last is Event.now(), _make looks for
\* first.
attempt_now ==
    /\ pc = "loop"
    /\ i < NUM_TRIES
    /\ is_now
    /\ \E m \in choose_middle(middle, events), t \in {x \in instants : x >= now} :
          LET pool == remove_middle(m, events)
              made == make_find(pool, None, m, EventNow(t))
          IN  /\ middle' = m
              /\ events' = pool
              /\ now' = t
              /\ firstNow' = IF firstNow = 0 THEN t ELSE firstNow
              /\ IF made.raised
                 THEN /\ i' = i + 1
                      /\ UNCHANGED <<pc, timeghost>>
                 ELSE /\ timeghost' = [made.obj EXCEPT !.tries = tries_of(i)]
                      /\ pc' = "returned"
                      /\ UNCHANGED i
    /\ UNCHANGED <<is_now, is_random, error, instants, response, events0,
                   middle0, prev, built, factoid>>

\* One pass of make's loop without is_now: first is random.choice(befores),
\* which raises IndexError on an empty list; _make looks for last.
attempt_arbitrary ==
    /\ pc = "loop"
    /\ i < NUM_TRIES
    /\ ~is_now
    /\ \E m \in choose_middle(middle, events) :
          LET pool == remove_middle(m, events)
              candidates == befores(m, pool)
          IN  /\ middle' = m
              /\ events' = pool
              /\ IF candidates = <<>>
                 THEN /\ error' = "IndexError"
                      /\ pc' = "raised"
                      /\ UNCHANGED <<i, timeghost>>
                 ELSE \E first \in Range(candidates) :
                        LET made == make_find(pool, first, m, None)
                        IN  IF made.raised
                            THEN /\ i' = i + 1
                                 /\ UNCHANGED <<pc, timeghost, error>>
                            ELSE /\ timeghost' =
                                        [made.obj EXCEPT !.tries = tries_of(i)]
                                 /\ pc' = "returned"
                                 /\ UNCHANGED <<i, error>>
    /\ UNCHANGED <<is_now, is_random, now, instants, response, events0,
                   middle0, firstNow, prev, built, factoid>>

\* The loop has run NUM_TRIES times: "return timeghost".  No failed pass
\* assigns timeghost, so the name is unbound and the return raises
\* UnboundLocalError.
make_exhausted ==
    /\ pc = "loop"
    /\ i = NUM_TRIES
    /\ IF timeghost = NoTimeghost
       THEN /\ error' = "UnboundLocalError"
            /\ pc' = "raised"
       ELSE /\ pc' = "returned"
            /\ UNCHANGED error
    /\ UNCHANGED <<events, middle, is_now, is_random, i, timeghost, now,
                   instants, response, events0, middle0, firstNow, prev, built, factoid>>

\* load_events_and_make_timeghost once make has ended: the Timeghost is
\* returned, a TimeghostCreationError becomes the message string, and any
\* other exception goes on to the route.
respond ==
    /\ pc \in {"returned", "raised"}
    /\ response' = IF pc = "returned" THEN "timeghost"
                   ELSE IF error = "TimeghostCreationError" THEN "message"
                   ELSE "crash"
    /\ pc' = "done"
    /\ UNCHANGED <<events, middle, is_now, is_random, i, timeghost, error, now,
                   instants, events0, middle0, firstNow, prev, built, factoid>>

Next ==
    \/ make_shuffle
    \/ make_sort
    \/ attempt_now
    \/ attempt_arbitrary
    \/ make_exhausted
    \/ respond

Spec == Init /\ [][Next]_vars

\* ------------------------------------------------- two runs of make
\* make is called again with an equal pool, the same middle and the same
\* flags; the outcome of the run that has just ended is kept in prev.  The
\* clock is not set back.
rerun ==
    /\ pc \in {"returned", "raised"}
    /\ prev = NoOutcome
    /\ prev' = [pc |-> pc, timeghost |-> timeghost, error |-> error]
    /\ pc' = "call"
    /\ events' = events0
    /\ middle' = middle0
    /\ i' = 0
    /\ timeghost' = NoTimeghost
    /\ error' = "none"
    /\ UNCHANGED <<is_now, is_random, now, instants, response, events0,
                   middle0, firstNow, built, factoid>>

\* make in deterministic mode with a pinned middle.
InitTwice == Init /\ ~is_random /\ middle0 # None

NextTwice ==
    \/ make_sort
    \/ attempt_now
    \/ attempt_arbitrary
    \/ make_exhausted
    \/ rerun

SpecTwice == InitTwice /\ [][NextTwice]_vars

\* ------------------------------------------- the scenario of the spec
\* Dates are days (proleptic Gregorian ordinals).
EventA == Event(1, 648491)      \* 1776-07-04
EventB == Event(2, 718998)      \* 1969-07-20
EventC == Event(3, 726415)      \* 1989-11-09

\* The current date (2026-11-04) and the two days around the day from which
\* B is closer to A than to now: B + (B - A) = 2162-08-04.
Today == 700000 + 39924
StartOfHaunting == EventB.date + Sub(EventB, EventA)
ScenarioInstants == {Today, StartOfHaunting, StartOfHaunting + 1}

\* make(events, B, is_now=True, is_random) on the pool [A, B, C], B being
\* the pool's own object or an equal event loaded apart from it.
InitScenario ==
    /\ pc = "call"
    /\ events0 = <<EventA, EventB, EventC>>
    /\ events = events0
    /\ middle0 \in {EventB, Event(CopyId, EventB.date)}
    /\ middle = middle0
    /\ is_now = TRUE
    /\ is_random \in BOOLEAN
    /\ i = 0
    /\ timeghost = NoTimeghost
    /\ error = "none"
    /\ now = Today
    /\ instants = ScenarioInstants
    /\ response = "pending"
    /\ firstNow = 0
    /\ prev = NoOutcome
    /\ built = NotBuilt
    /\ factoid = NoFactoid

NextScenario ==
    \/ make_shuffle
    \/ make_sort
    \/ attempt_now
    \/ make_exhausted
    \/ respond

SpecScenario == InitScenario /\ [][NextScenario]_vars

\* --------------------------------------- the constructor called directly
\* No call of make is under way.
MakeIdle ==
    /\ pc = "idle"
    /\ events0 = <<>>
    /\ events = <<>>
    /\ middle0 = None
    /\ middle = None
    /\ is_now = FALSE
    /\ is_random = FALSE
    /\ i = 0
    /\ timeghost = NoTimeghost
    /\ error = "none"
    /\ now = MinNow
    /\ instants = MinNow..MaxNow
    /\ response = "pending"
    /\ firstNow = 0
    /\ prev = NoOutcome

InitCtor == MakeIdle /\ built = NotBuilt /\ factoid = NoFactoid

\* Timeghost(first, middle, last, check) on the events a route hands it
\* (three loaded events, or two and Event.now()), then is_valid() on the
\* object when there is one.
build ==
    /\ pc = "idle"
    /\ \E d1, d2, d3 \in 1..MaxDate, t \in instants, at_now, check \in BOOLEAN :
          LET first == Event(1, d1)
              mid == Event(2, d2)
              last == IF at_now THEN EventNow(t) ELSE Event(3, d3)
              made == Timeghost(first, mid, last, check)
          IN  built' = [called |-> TRUE, first |-> first, middle |-> mid,
                        last |-> last, check |-> check, raised |-> made.raised,
                        obj |-> made.obj,
                        valid |-> IF made.raised THEN FALSE
                                  ELSE is_valid(made.obj)]
    /\ UNCHANGED makeVars
    /\ UNCHANGED <<prev, factoid>>

NextCtor == build

SpecCtor == InitCtor /\ [][NextCtor]_vars

\* ----------------------------------------------------- verbose_factoid
\* Gaps in seconds: half a year, a year, a year and a second, a year and
\* two seconds, a year and a fortnight, a year and a half, two years and a
\* half.
Gaps == {15768000, 31536000, 31536001, 31536002, 32745600, 47304000, 78840000}

\* verbose_factoid is read on a Timeghost with first < middle < last, built
\* by make or, unchecked, by a route.
InitFactoid ==
    /\ MakeIdle
    /\ built = NotBuilt
    /\ \E g1, g2 \in Gaps :
          factoid = [pc |-> "search",
                     tg |-> [first |-> Event(1, 0), middle |-> Event(2, g1),
                             last |-> Event(3, g1 + g2), tries |-> 1],
                     precision |-> 0,
                     first_text |-> NoText, last_text |-> NoText]

\* The two figures print alike at the current precision.
SameFigures(f) ==
    Format(first_gap_years(f.tg), f.precision)
        = Format(last_gap_years(f.tg), f.precision)

\* "while ...: precision += 1".  The model follows the loop up to
\* MaxPrecision; a float has at most 27 decimals here, so two figures alike at
\* MaxPrecision are the same float and stay alike at every precision.
precision_step ==
    /\ factoid.pc = "search"
    /\ SameFigures(factoid)
    /\ factoid.precision < MaxPrecision
    /\ factoid' = [factoid EXCEPT !.precision = @ + 1]
    /\ UNCHANGED makeVars
    /\ UNCHANGED <<prev, built>>

\* The loop ends and the sentence is built with the two figures.
render ==
    /\ factoid.pc = "search"
    /\ ~SameFigures(factoid)
    /\ factoid' = [factoid EXCEPT
                     !.pc = "rendered",
                     !.first_text = Format(first_gap_years(factoid.tg),
                                           factoid.precision),
                     !.last_text = Format(last_gap_years(factoid.tg),
                                          factoid.precision)]
    /\ UNCHANGED makeVars
    /\ UNCHANGED <<prev, built>>

NextFactoid ==
    \/ precision_step
    \/ render

SpecFactoid == InitFactoid /\ [][NextFactoid]_vars

\* ------------------------------------------------------------- claims
\* The two-part predicate of the claims, on dates alone.
ValidDates(f, m, l) == f < m /\ m < l /\ (m - f) < (l - m)

\* C1: Timeghost(first, middle, last, check) raises exactly when check is
\* true and the triple is not valid (first.date < middle.date < last.date and
\* middle.date - first.date < last.date - middle.date); with check false
\* every triple is accepted, and is_valid() on the object evaluates that
\* same predicate.
C1_ConstructorValidates ==
    built.called =>
        LET valid == ValidDates(built.first.date, built.middle.date,
                                built.last.date)
        IN  /\ built.raised <=> (built.check /\ ~valid)
            /\ ~built.raised =>
                  /\ built.obj.first = built.first
                  /\ built.obj.middle = built.middle
                  /\ built.obj.last = built.last
                  /\ built.valid = valid

\* C1's case: an invalid triple built with check false is accepted.
C1_Witness ==
    /\ built.called
    /\ ~built.check
    /\ ~built.raised
    /\ ~ValidDates(built.first.date, built.middle.date, built.last.date)

\* C2: a Timeghost returned by make is valid, its tries is the 1-indexed
\* number of the attempt that produced it (the failed attempts before it
\* plus one), and tries is never below 1 or above NUM_TRIES.
C2_ReturnsFirstValidAttempt ==
    pc = "returned" =>
        /\ ValidDates(timeghost.first.date, timeghost.middle.date,
                      timeghost.last.date)
        /\ timeghost.tries = i + 1
        /\ timeghost.tries >= 1
        /\ timeghost.tries <= NUM_TRIES

\* C2's case: make returns from its last attempt, after NUM_TRIES - 1 failed.
C2_Witness == pc = "returned" /\ timeghost.tries = NUM_TRIES

\* Both runs of SpecTwice have ended.
BothRan == prev.pc # "none" /\ pc \in {"returned", "raised"}

\* Every reading of the clock in the two runs was the same instant.
SameInstant == firstNow = 0 \/ firstNow = now

\* C3 as stated: with is_random false and a pinned middle, two runs on equal
\* pools that both return give the same triple and the same tries, for
\* either value of is_now.
C3_DeterministicEitherMode ==
    (BothRan /\ SameInstant /\ pc = "returned" /\ prev.pc = "returned")
        => timeghost = prev.timeghost

\* C3 amended: with is_random false, a pinned middle and is_now true, two
\* runs on equal pools that read the same instant end the same way: the same
\* triple and tries, or the same failure.
C3_DeterministicWhenNow ==
    (BothRan /\ SameInstant /\ is_now)
        => /\ pc = prev.pc
           /\ timeghost = prev.timeghost
           /\ error = prev.error

\* C3's case: two deterministic runs anchored to the same now have returned.
C3_Witness ==
    BothRan /\ SameInstant /\ is_now /\ pc = "returned" /\ prev.pc = "returned"

C5_ExhaustionReturnsInvalid ==
    (i = NUM_TRIES /\ pc \in {"returned", "raised", "done"}) =>
        /\ error = "none"
        /\ timeghost # NoTimeghost
        /\ ~is_valid(timeghost)

\* C6: with is_now false, finding no event earlier than the middle is a
\* retry inside make's loop; the failure of _event_before never leaves make
\* as an uncaught exception.
C6_NoEarlierEventIsRetried == ~is_now => error # "IndexError"

\* C7: load_events_and_make_timeghost never raises: it gives its route a
\* Timeghost or the "Can't make timeghost" string.
C7_WrapperNeverRaises == response \in {"pending", "timeghost", "message"}

\* C8: for every valid Timeghost the precision search of verbose_factoid
\* ends: it never stands at a precision, however high, with the two figures
\* still printing alike.
C8_PrecisionSearchEnds ==
    (factoid.pc = "search" /\ is_valid(factoid.tg) /\ SameFigures(factoid))
        => factoid.precision < MaxPrecision

\* C9: within one run of make the middle, once pinned or drawn, is never
\* changed, and the pool is the initial pool less at most that one event.
C9_MiddleFixedPoolLosesOnlyMiddle ==
    /\ [](pc # "idle" =>
            /\ middle0 # None => middle = middle0
            /\ Range(events) \subseteq Range(events0)
            /\ Len(events) >= Len(events0) - 1
            /\ Len(events) < Len(events0) =>
                  (middle # None /\ Range(events) = Range(events0) \ {middle}))
    /\ [][middle # None => middle' = middle]_vars

\* C9's case: a middle drawn at random is in use on a third attempt, the
\* pool without it.
C9_Witness ==
    /\ pc = "loop"
    /\ i >= 2
    /\ middle0 = None
    /\ middle # None
    /\ Len(events) = Len(events0) - 1

\* The events of the pool that validate as the first (is_now) or the last
\* (otherwise) of the returned Timeghost's other two events.
ValidEndpoints ==
    {e \in Range(events) :
        IF is_now
        THEN ValidDates(e.date, timeghost.middle.date, timeghost.last.date)
        ELSE ValidDates(timeghost.first.date, timeghost.middle.date, e.date)}

\* C10 as stated: in deterministic mode the endpoint found by the scan is the
\* valid candidate closest in time to the middle, in both modes.
C10_ScanPicksClosest ==
    (pc = "returned" /\ ~is_random) =>
        \A e \in ValidEndpoints :
            IF is_now THEN e.date <= timeghost.first.date
            ELSE timeghost.last.date <= e.date

\* C10 amended: in deterministic mode the endpoint found by the scan is the
\* earliest valid candidate: searching for last (is_now false) that is the
\* valid event closest after the middle, searching for first (is_now true) it
\* is the valid event farthest before the middle.
C10_ScanPicksEarliest ==
    (pc = "returned" /\ ~is_random) =>
        /\ (IF is_now THEN timeghost.first ELSE timeghost.last) \in ValidEndpoints
        /\ \A e \in ValidEndpoints :
              IF is_now THEN timeghost.first.date <= e.date
              ELSE timeghost.last.date <= e.date

\* C10's case: the deterministic search for first had a closer valid
\* candidate than the one it returned.
C10_Witness ==
    /\ pc = "returned"
    /\ ~is_random
    /\ is_now
    /\ \E e \in ValidEndpoints : e.date > timeghost.first.date

====
